---- MODULE Spec2Model ----
(***************************************************************************)
(* Round coordination and checkpoint hand-off of the validator.            *)
(*                                                                         *)
(* Spec      : template/validator/forward.py ("peers race to publish"):    *)
(*             two validators run forward() against one model repository.  *)
(* SpecRound : one validator of Spec; the rest of the network is seen      *)
(*             through the repository.                                     *)
(* SpecNaN   : SpecRound with optimizer steps that leave NaNs in the       *)
(*             weights.                                                    *)
(* SpecLoad  : load_state_from_peer called again and again while other     *)
(*             validators publish.                                         *)
(* SpecTracker: SpecRound with a global-progress refresh that can fail.    *)
(* SpecGroup : perform_all_reduce of template/validator/forward.py: two    *)
(*             validators form the group of a round.                       *)
(* SpecDT    : distributed_training/validator/forward.py: the master and   *)
(*             one other validator, each with its ModelLoadingManager;     *)
(*             FairSpecDT adds weak fairness of forward()'s steps.         *)
(* SpecDue   : forward() of SpecDT while the chain produces blocks, without *)
(*             the loading thread.                                         *)
(* SpecReward: get_rewards of template/validator/reward.py, pass after     *)
(*             pass.                                                       *)
(* SpecTtl   : ttl_get_block of distributed_training/utils/misc.py under a *)
(*             clock that runs in seconds.                                 *)
(* SpecStore : one validator of Spec against a repository that may have   *)
(*             no tag yet and that accepts every upload; FairSpecStore     *)
(*             adds weak fairness of forward()'s steps.                    *)
(* SpecRetry : the retry loop of load_state_from_peer.                     *)
(* SpecSafe  : get_current_block_safe of distributed_training/utils/misc.py *)
(*             with a chain whose queries can fail.                        *)
(* SpecDht   : init_dht of distributed_training/utils/misc.py; FairSpecDht *)
(*             adds weak fairness of its steps.                            *)
(* Every step of forward() that talks to the network (tracker refresh,     *)
(* reduction handle, list_repo_refs, push_to_hub, create_tag) is one       *)
(* action, so that the peers' steps interleave where the processes can.    *)
(***************************************************************************)
EXTENDS Integers, Sequences, FiniteSets, TLC

\* ------------------------------------------------------------- bounds
\* rounds are started only while local_progress.epoch < MaxEpoch
MaxEpoch == 2
\* self.model_upload_retry_limit (configuration)
RetryLimit == 2
\* gradient accumulators hold at most MaxAcc samples in the model
MaxAcc == 39
\* samples one Train step adds to the local progress
TrainBatch == 13

\* miners one query is sent to
NumUids == 2
\* the sum of a layer's gradients is between 0 and MaxGrad
MaxGrad == 2
\* a download of a miner's state takes up to MaxElapsed seconds
MaxElapsed == 2
\* scoring passes run while self.step <= MaxStep
MaxStep == 1
\* the clock stops at MaxTime seconds
MaxTime == 25
\* self._block_cache_duration, in seconds (set where the neuron is built)
BlockCacheDuration == 3
\* initial_peers_list has up to MaxPeers addresses
MaxPeers == 3

\* ---------------------------------------------------------- constants
\* misc.py:387  buffer = 5
Buffer == 5
\* state_loader.py:228  MAX_ATTEMPTS = 3
MaxAttempts == 3
\* reward.py:164  if ((self.step % 10)==0)
BlacklistEvery == 10
\* misc.py:115  @ttl_cache(maxsize=1, ttl=12)
Ttl == 12
\* forward.py:172  if self.local_progress.samples_accumulated>=25
AllReduceThreshold == 25

Peers == {"A", "B"}

\* Python's None where an epoch or a tag is expected
None == 0 - 1

\* the checkpoint the repository starts with: tag 0 on the first commit
Genesis == [ep |-> 0, by |-> "genesis"]

VARIABLES
    pc,            \* where each peer is inside forward()
    localEpoch,    \* self.local_progress.epoch
    localSamples,  \* self.local_progress.samples_accumulated
    globalEpoch,   \* self.global_progress.epoch
    model,         \* self.model: the weights a peer holds
    lastLoad,      \* the last load_state_from_peer call of template forward()
    acc,           \* samples held in the gradient accumulators of grad_averager
    handle,        \* gradient_averaging_step: none, running, done, late, cancelled
    deadline,      \* time.perf_counter() - start_time > all_reduce_timeout
    cancelCalls,   \* calls of gradient_averaging_step.cancel() in this forward()
    outcome,       \* how this forward() classified its round
    tagName,       \* tag_name, the maximum tag forward() read from the hub
    attempt,       \* attempt, the upload retry counter
    pubEpoch,      \* the epoch this forward() tried to publish, None if none
    pubOK,         \* create_tag of pubEpoch succeeded in this forward()
    exc,           \* this forward() ended by raising
    main,          \* the repository: weights at the head of the main branch
    tags,          \* the repository: tag -> weights the tag points to
    optMain,       \* the repository: "epoch" of optimizer.pt at the head of main
    optTags,       \* the repository: tag -> "epoch" of optimizer.pt at the tag
    \* perform_all_reduce (SpecGroup)
    gpc,             \* where each peer is inside perform_all_reduce
    directory,       \* the DHT: what map_uid_to_peerid resolves a uid to now
    minerUids,       \* self.miner_uids
    groupPeerids,    \* group_peerids.values(), in the order of its keys
    blacklistScores, \* blacklist_scores
    orderedPeerIds,  \* ordered_peer_ids of the GroupInfo handed to step()
    groupId,         \* group_id
    \* distributed_training forward() and ModelLoadingManager (SpecDT)
    dtMinerUids,     \* len(self.miner_uids)
    pool,            \* miners that answer get_random_uids now
    isLoading,       \* ModelLoadingManager._is_loading
    lastLoadedEpoch, \* ModelLoadingManager._last_loaded_epoch
    loader,          \* the loading thread of each process: idle, loading
    blocksSinceAllreduce, \* self.block - self.last_allreduce_block
    trackerUp,       \* the source update_global_tracker_state reads answers
    \* the Hugging Face cache of each validator (SpecLoad)
    cache,           \* the revisions of the model repository in the cache
    commitHash,      \* self.model.config._commit_hash
    \* get_rewards (SpecReward)
    rpc,             \* the validator is about to query the miners, or to score
    responses,       \* responses[0], what the miners answered to the query
    allReduce,       \* all_reduce, the query was an AllReduce synapse
    step,            \* self.step
    rewards,         \* rewards, the tensor get_rewards returned last
    scoredUids,      \* uids inside get_rewards when it returned
    \* ttl_get_block (SpecTtl)
    now,             \* time.time(), in seconds
    startTime,       \* start_time of _ttl_hash_gen, None before its first next()
    lru,             \* the one entry of lru_cache(maxsize=1) around ttl_func
    reached,         \* when the last two calls of get_current_block were made
    \* the retry loop of load_state_from_peer (SpecRetry)
    lpc,             \* where validator A is inside load_state_from_peer
    loadEpoch,       \* epoch, the argument after line 212
    loadAttempt,     \* attempt
    loadCalls,       \* calls of load_model_optimizer_gradient_averager so far
    stateLoaded,     \* what the call returned ("True", "False"), "none" while it runs
    \* get_current_block_safe (SpecSafe)
    bpc,             \* the process is outside the call, or has its result
    lastBlock,       \* self._last_block
    lastBlockTime,   \* self._last_block_time
    chainBlock,      \* what subtensor.get_current_block() answers now
    blockRet,        \* the last call: its result and what it found at entry
    \* init_dht (SpecDht)
    ipc,             \* where init_dht is
    initialPeers,    \* len(initial_peers_list)
    retries,         \* retries
    dhtPos,          \* <<attempt, index of initial_peer>> of the two for loops
    successfulConnection, \* successful_connection
    dht              \* self.dht: the initial peer it was built with, or None

forwardVars == <<pc, localEpoch, localSamples, globalEpoch, model, lastLoad, acc, handle,
                 deadline, cancelCalls, outcome, tagName, attempt, pubEpoch,
                 pubOK, exc, main, tags, optMain, optTags>>
groupVars == <<gpc, directory, minerUids, groupPeerids, blacklistScores,
               orderedPeerIds, groupId>>
\* what forward() of one validator and the repository do not touch
disk == <<cache, commitHash>>
rewardVars == <<rpc, responses, allReduce, step, rewards, scoredUids>>
clock == <<now, startTime, lru, reached>>
retry == <<lpc, loadEpoch, loadAttempt, loadCalls, stateLoaded>>
safe == <<bpc, lastBlock, lastBlockTime, chainBlock, blockRet>>
initDht == <<ipc, initialPeers, retries, dhtPos, successfulConnection, dht>>
apart == <<disk, rewardVars, clock, retry, safe, initDht>>
dtVars == <<dtMinerUids, pool, isLoading, lastLoadedEpoch, loader,
           blocksSinceAllreduce, trackerUp, apart>>
aux == <<groupVars, dtVars>>
vars == <<forwardVars, aux>>

\* ------------------------------------------------------------ helpers
Max(S) == CHOOSE x \in S : \A y \in S : y <= x

\* max([int(tag.name) for tag in refs.tags]) if refs.tags else None
MaxTag(t) == IF DOMAIN t = {} THEN None ELSE Max(DOMAIN t)

\* get_global_epoch(self): the latest tag of the model repository
GetGlobalEpoch == MaxTag(tags)

\* AutoModelForCausalLM.from_pretrained(model_name, revision=str(epoch)) if epoch
\* else from_pretrained(model_name): epoch 0 is falsy and reads the main branch
RevisionExists(epoch) == epoch = 0 \/ epoch \in DOMAIN tags
FromPretrained(epoch) == IF epoch = 0 THEN main ELSE tags[epoch]

\* a load_state_from_peer that adds the loaded epoch to the local one
LoadStateFromPeerAdds(p, g, epochArg, netOK) ==
    LET glob  == IF epochArg = None THEN GetGlobalEpoch ELSE g
        epoch == IF epochArg = None THEN glob ELSE epochArg
        ok    == glob # None /\ netOK /\ RevisionExists(epoch)
    IN  [ok      |-> ok,
         epoch   |-> IF ok THEN (localEpoch[p] + glob) % (MaxEpoch + 1)
                           ELSE localEpoch[p],
         samples |-> IF ok THEN 0 ELSE localSamples[p],
         model   |-> IF ok THEN FromPretrained(epoch) ELSE model[p],
         global  |-> glob,
         rev     |-> epoch,
         latest  |-> GetGlobalEpoch]

\* load_state_from_peer(self, epoch): g is self.global_progress.epoch at the
\* call, netOK whether the hub answers within the three attempts.  The result
\* is what the call returns and the progress, weights and global epoch it leaves.
LoadStateFromPeer(p, g, epochArg, netOK) ==
    LET glob  == IF epochArg = None THEN GetGlobalEpoch ELSE g
        epoch == IF epochArg = None THEN glob ELSE epochArg
        ok    == glob # None /\ netOK /\ RevisionExists(epoch)
    IN  [ok      |-> ok,
         epoch   |-> IF ok THEN glob ELSE localEpoch[p],
         samples |-> IF ok THEN 0 ELSE localSamples[p],
         model   |-> IF ok THEN FromPretrained(epoch) ELSE model[p],
         global  |-> glob,
         rev     |-> epoch,
         latest  |-> GetGlobalEpoch]

\* forward() has not called load_state_from_peer
NoLoad == [site |-> "none", ok |-> FALSE, epoch |-> None, latest |-> None]

\* forward() made no load_state_from_peer call and its refresh of the global
\* progress had failed
NoLoadStale == [site |-> "stale", ok |-> FALSE, epoch |-> None, latest |-> None]

\* a call of load_state_from_peer at a call site of forward(): whether it
\* loaded, the revision it asked for and the latest tag of the repository then
LoadRecord(site, r) ==
    [site |-> site, ok |-> r.ok, epoch |-> r.rev, latest |-> r.latest]

\* ------------------------------------------- group formation: values
\* self.config.neuron.min_group_size (configuration)
MinGroupSize == 2

\* uids of the miners of the subnet
Miners == {2, 3}

\* self.uid of the two validators
Uid(p) == IF p = "A" THEN 0 ELSE 1

\* self.dht.peer_id
PeerIdOf(p) == IF p = "A" THEN "QmA" ELSE "QmB"

\* the peer id a miner announces to the DHT
MinerPeerId(u) == IF u = 2 THEN "Qm2" ELSE "Qm3"

\* values DHTID.generate() draws
GroupIds == {"g1", "g2"}

\* map_uid_to_peerid found no peer for the uid
NoPeer == "None"

\* no group_peerids, blacklist_scores, GroupInfo yet (get_random_uids never
\* hands perform_all_reduce an empty list)
Unset == <<>>

\* the miner lists get_random_uids can return: any non-empty list of
\* distinct miners, in any order
UidLists ==
    {<<u>> : u \in Miners} \cup
    {l \in {<<u, v>> : u \in Miners, v \in Miners} : l[1] # l[2]}

InitGroupVars ==
    /\ directory = [u \in Miners |-> NoPeer]
    /\ minerUids = [p \in Peers |-> <<>>]
    /\ groupPeerids = [p \in Peers |-> Unset]
    /\ blacklistScores = [p \in Peers |-> Unset]
    /\ orderedPeerIds = [p \in Peers |-> Unset]
    /\ groupId = [p \in Peers |-> NoPeer]

\* active miners in the model
MaxPool == 1

\* blocks the chain produces in the model
MaxBlocks == 2

\* self.config.neuron.blocks_per_allreduce (configuration)
BlocksPerAllreduce == 2

InitDTVars ==
    /\ dtMinerUids = [p \in Peers |-> 0]
    /\ pool = 0
    /\ isLoading = [p \in Peers |-> FALSE]
    /\ lastLoadedEpoch = [p \in Peers |-> None]
    /\ loader = [p \in Peers |-> "idle"]
    /\ blocksSinceAllreduce = 0
    /\ trackerUp = TRUE
    /\ cache = [p \in Peers |-> {Genesis}]
    /\ commitHash = [p \in Peers |-> Genesis]
    /\ rpc = "query"
    /\ responses = <<>>
    /\ allReduce = FALSE
    /\ step = 0
    /\ rewards = <<>>
    /\ scoredUids = <<>>
    /\ now = 0
    /\ startTime = None
    /\ lru = [hash |-> None, at |-> None]
    /\ reached = <<None, None>>
    /\ lpc = "off"
    /\ loadEpoch = None
    /\ loadAttempt = 0
    /\ loadCalls = 0
    /\ stateLoaded = "none"
    /\ bpc = "idle"
    /\ lastBlock = None
    /\ lastBlockTime = 0
    /\ chainBlock = 0
    /\ blockRet = [raised |-> FALSE, block |-> None, queried |-> FALSE,
                   failed |-> FALSE, at |-> 0, before |-> <<None, 0>>]
    /\ ipc = "off"
    /\ initialPeers = 0
    /\ retries = 0
    /\ dhtPos = <<0, 1>>
    /\ successfulConnection = FALSE
    /\ dht = None

\* --------------------------------------------------------------- Init
\* every validator holds the repository's first checkpoint
InitForward ==
    /\ localEpoch = [p \in Peers |-> 0]
    /\ localSamples = [p \in Peers |-> 0]
    /\ globalEpoch = [p \in Peers |-> 0]
    /\ model = [p \in Peers |-> Genesis]
    /\ lastLoad = [p \in Peers |-> NoLoad]
    /\ acc = [p \in Peers |-> 0]
    /\ handle = [p \in Peers |-> "none"]
    /\ deadline = [p \in Peers |-> FALSE]
    /\ cancelCalls = [p \in Peers |-> 0]
    /\ outcome = [p \in Peers |-> <<>>]
    /\ tagName = [p \in Peers |-> None]
    /\ attempt = [p \in Peers |-> 0]
    /\ pubEpoch = [p \in Peers |-> None]
    /\ pubOK = [p \in Peers |-> FALSE]
    /\ exc = [p \in Peers |-> FALSE]
    /\ main = Genesis
    /\ tags = (0 :> Genesis)
    /\ optMain \in {None, 0}
    /\ optTags = (0 :> optMain)

\* the state outside perform_all_reduce and outside forward()
InitState ==
    /\ InitForward
    /\ InitGroupVars
    /\ gpc = [p \in Peers |-> "off"]
    /\ InitDTVars

Init ==
    /\ pc = [p \in Peers |-> "idle"]
    /\ InitState

store == <<main, tags, optMain, optTags>>
round == <<handle, deadline, cancelCalls, outcome>>
publish == <<tagName, attempt, pubEpoch, pubOK>>
progress == <<localEpoch, localSamples, globalEpoch, model, lastLoad>>

\* forward() returns (or raises): its locals are dead
EndForward(p, raised) ==
    /\ pc' = [pc EXCEPT ![p] = IF raised THEN "raised" ELSE "idle"]
    /\ exc' = [exc EXCEPT ![p] = raised]
    /\ tagName' = [tagName EXCEPT ![p] = None]
    /\ attempt' = [attempt EXCEPT ![p] = 0]

\* update_global_tracker_state(self): global_progress.epoch after the refresh;
\* a refresh that fails keeps the last known value and does not raise
UpdateGlobalTrackerState(p) ==
    IF trackerUp THEN GetGlobalEpoch ELSE globalEpoch[p]

\* a forward() that clears global_progress before the refresh
RefreshForgets(p, netOK) ==
    LET g == IF trackerUp THEN GetGlobalEpoch ELSE None
        behind == g # None /\ localEpoch[p] < g
        r == LoadStateFromPeer(p, g, None, netOK)
    IN  [epoch   |-> IF behind THEN r.epoch ELSE localEpoch[p],
         samples |-> IF behind THEN r.samples ELSE localSamples[p],
         model   |-> IF behind THEN r.model ELSE model[p],
         global  |-> IF behind THEN r.global ELSE g,
         load    |-> IF behind THEN LoadRecord("refresh", r)
                     ELSE IF trackerUp THEN NoLoad ELSE NoLoadStale]

\* ------------------------------------------------------------ actions
\* forward.py 165-169: update_global_tracker_state and load_state_from_peer(self)
\* when the local epoch is behind.  The progress, weights and global epoch
\* forward() goes on with.
Refresh(p, netOK) ==
    LET g == UpdateGlobalTrackerState(p)
        behind == g # None /\ localEpoch[p] < g
        r == LoadStateFromPeer(p, g, None, netOK)
    IN  [epoch   |-> IF behind THEN r.epoch ELSE localEpoch[p],
         samples |-> IF behind THEN r.samples ELSE localSamples[p],
         model   |-> IF behind THEN r.model ELSE model[p],
         global  |-> IF behind THEN r.global ELSE g,
         load    |-> IF behind THEN LoadRecord("refresh", r)
                     ELSE IF trackerUp THEN NoLoad ELSE NoLoadStale]

\* a new call of forward(): what the previous call left is forgotten
NewCall(p) ==
    /\ deadline' = [deadline EXCEPT ![p] = FALSE]
    /\ cancelCalls' = [cancelCalls EXCEPT ![p] = 0]
    /\ pubEpoch' = [pubEpoch EXCEPT ![p] = None]
    /\ pubOK' = [pubOK EXCEPT ![p] = FALSE]

\* forward.py 165-169, 189-227, 370-414 with reward.py 29-69: a Train step; the
\* miners' batches are added to the local progress and to the accumulators
ForwardTrain(p) ==
    /\ pc[p] = "idle"
    /\ \E netOK \in BOOLEAN :
         LET s == Refresh(p, netOK)
         IN  /\ s.samples < AllReduceThreshold
             /\ localEpoch' = [localEpoch EXCEPT ![p] = s.epoch]
             /\ localSamples' = [localSamples EXCEPT ![p] = s.samples + TrainBatch]
             /\ lastLoad' = [lastLoad EXCEPT ![p] = s.load]
             /\ model' = [model EXCEPT ![p] = s.model]
             /\ globalEpoch' = [globalEpoch EXCEPT ![p] = s.global]
    /\ acc[p] + TrainBatch <= MaxAcc
    /\ acc' = [acc EXCEPT ![p] = @ + TrainBatch]
    /\ handle' = [handle EXCEPT ![p] = "none"]
    /\ outcome' = [outcome EXCEPT ![p] = <<>>]
    /\ NewCall(p)
    /\ EndForward(p, FALSE)
    /\ UNCHANGED store
    /\ UNCHANGED aux

\* forward.py 165-169, 206-208: no active miners, nothing is queried
ForwardNoMiners(p) ==
    /\ pc[p] = "idle"
    /\ \E netOK \in BOOLEAN :
         LET s == Refresh(p, netOK)
         IN  /\ localEpoch' = [localEpoch EXCEPT ![p] = s.epoch]
             /\ localSamples' = [localSamples EXCEPT ![p] = s.samples]
             /\ lastLoad' = [lastLoad EXCEPT ![p] = s.load]
             /\ model' = [model EXCEPT ![p] = s.model]
             /\ globalEpoch' = [globalEpoch EXCEPT ![p] = s.global]
    /\ handle' = [handle EXCEPT ![p] = "none"]
    /\ outcome' = [outcome EXCEPT ![p] = <<>>]
    /\ NewCall(p)
    /\ EndForward(p, FALSE)
    /\ UNCHANGED <<acc, store>>
    /\ UNCHANGED aux

\* forward.py 165-169, 213-236 with perform_all_reduce 112-146: the group is
\* formed, grad_averager.step(custom_group_info, wait=False) returns the handle
\* and the miners are queried
ForwardAllReduce(p) ==
    /\ pc[p] = "idle"
    /\ \E netOK \in BOOLEAN :
         LET s == Refresh(p, netOK)
         IN  /\ s.samples >= AllReduceThreshold
             /\ s.epoch < MaxEpoch
             /\ localEpoch' = [localEpoch EXCEPT ![p] = s.epoch]
             /\ localSamples' = [localSamples EXCEPT ![p] = s.samples]
             /\ lastLoad' = [lastLoad EXCEPT ![p] = s.load]
             /\ model' = [model EXCEPT ![p] = s.model]
             /\ globalEpoch' = [globalEpoch EXCEPT ![p] = s.global]
    /\ handle' = [handle EXCEPT ![p] = "running"]
    /\ outcome' = [outcome EXCEPT ![p] = <<>>]
    /\ NewCall(p)
    /\ pc' = [pc EXCEPT ![p] = "waiting"]
    /\ UNCHANGED <<acc, tagName, attempt, exc, store>>
    /\ UNCHANGED aux

\* forward.py 215: perform_all_reduce is awaited outside any try; what
\* grad_averager.step raises leaves forward()
ForwardLaunchRaise(p) ==
    /\ pc[p] = "idle"
    /\ \E netOK \in BOOLEAN :
         LET s == Refresh(p, netOK)
         IN  /\ s.samples >= AllReduceThreshold
             /\ s.epoch < MaxEpoch
             /\ localEpoch' = [localEpoch EXCEPT ![p] = s.epoch]
             /\ localSamples' = [localSamples EXCEPT ![p] = s.samples]
             /\ lastLoad' = [lastLoad EXCEPT ![p] = s.load]
             /\ model' = [model EXCEPT ![p] = s.model]
             /\ globalEpoch' = [globalEpoch EXCEPT ![p] = s.global]
    /\ handle' = [handle EXCEPT ![p] = "none"]
    /\ outcome' = [outcome EXCEPT ![p] = <<"Error">>]
    /\ NewCall(p)
    /\ EndForward(p, TRUE)
    /\ UNCHANGED <<acc, store>>
    /\ UNCHANGED aux

\* the reduction finishes in the averager's own process: before the deadline
\* (done) or after it (late); done() is true of both
HandleComplete(p) ==
    /\ handle[p] = "running"
    /\ handle' = [handle EXCEPT ![p] = IF deadline[p] THEN "late" ELSE "done"]
    /\ UNCHANGED <<pc, progress, acc, deadline, cancelCalls, outcome, publish, exc, store>>
    /\ UNCHANGED aux

\* time passes while forward() polls the handle: perf_counter() - start_time
\* exceeds all_reduce_timeout
DeadlinePass(p) ==
    /\ pc[p] = "waiting"
    /\ handle[p] = "running"
    /\ ~deadline[p]
    /\ deadline' = [deadline EXCEPT ![p] = TRUE]
    /\ UNCHANGED <<pc, progress, acc, handle, cancelCalls, outcome, publish, exc, store>>
    /\ UNCHANGED aux

\* gradient_averaging_step.done()
Done(p) == handle[p] \in {"done", "late"}

\* a wait loop that gives up before the timeout
WaitOverEarly(p) == TRUE

\* forward.py 244-247: while (not step.done()) and (elapsed <= timeout): sleep(1)
WaitOver(p) == Done(p) \/ deadline[p]

\* a failure path that forgets step.cancel()
CancelForgotten(p) == UNCHANGED <<cancelCalls, handle>>

\* forward.py 361-366: step.cancel(), which has no effect on a handle that is
\* done, and opt.zero_grad() on the averaged gradients, which leaves the
\* gradient accumulators as they are
Cancel(p) ==
    /\ cancelCalls' = [cancelCalls EXCEPT ![p] = @ + 1]
    /\ handle' = [handle EXCEPT ![p] = IF @ = "running" THEN "cancelled" ELSE @]

\* forward.py 244-304, the handle is done and the optimizer step changed the
\* weights: the accumulators are reset and the local epoch advances
ClassifySuccess(p) ==
    /\ pc[p] = "waiting"
    /\ WaitOver(p)
    /\ Done(p)
    /\ acc' = [acc EXCEPT ![p] = 0]
    /\ localEpoch' = [localEpoch EXCEPT ![p] = @ + 1]
    /\ localSamples' = [localSamples EXCEPT ![p] = 0]
    /\ model' = [model EXCEPT ![p] = [ep |-> localEpoch[p] + 1, by |-> p]]
    /\ outcome' = [outcome EXCEPT ![p] = Append(@, "Success")]
    /\ pc' = [pc EXCEPT ![p] = "refs"]
    /\ UNCHANGED <<globalEpoch, lastLoad, handle, deadline, cancelCalls, publish, exc, store>>
    /\ UNCHANGED aux

\* forward.py 280-285, 361-368: the weights did not change;
\* load_state_from_peer(self, epoch=self.local_progress.epoch + 1), then the
\* handle is cancelled and the optimizer gradients zeroed
ClassifyUnchanged(p) ==
    /\ pc[p] = "waiting"
    /\ WaitOver(p)
    /\ Done(p)
    /\ \E netOK \in BOOLEAN :
         LET r == LoadStateFromPeer(p, globalEpoch[p], localEpoch[p] + 1, netOK)
         IN  /\ localEpoch' = [localEpoch EXCEPT ![p] = r.epoch]
             /\ localSamples' = [localSamples EXCEPT ![p] = r.samples]
             /\ lastLoad' = [lastLoad EXCEPT ![p] = LoadRecord("unchanged", r)]
             /\ model' = [model EXCEPT ![p] = r.model]
             /\ globalEpoch' = [globalEpoch EXCEPT ![p] = r.global]
    /\ outcome' = [outcome EXCEPT ![p] = Append(@, "Error")]
    /\ Cancel(p)
    /\ EndForward(p, FALSE)
    /\ UNCHANGED <<acc, deadline, pubEpoch, pubOK, store>>
    /\ UNCHANGED aux

\* the weights after an optimizer step that produced NaNs
Corrupt(p) == [ep |-> localEpoch[p], by |-> "nan"]

\* NaNs among the ten weights forward() samples after the optimizer step
MaxNaNs == 2

\* forward.py 287: elif sum(np.isnan(new_model_weights_sample)) > 1
NaNsFound(k) == k > 1

\* forward.py 273-304 with NaNs in the new weights that line 287 does not
\* find: the else branch takes the round as a success
ClassifySuccessCorrupt(p) ==
    /\ pc[p] = "waiting"
    /\ WaitOver(p)
    /\ Done(p)
    /\ \E k \in 1..MaxNaNs : ~NaNsFound(k)
    /\ acc' = [acc EXCEPT ![p] = 0]
    /\ localEpoch' = [localEpoch EXCEPT ![p] = @ + 1]
    /\ localSamples' = [localSamples EXCEPT ![p] = 0]
    /\ model' = [model EXCEPT ![p] = [ep |-> localEpoch[p] + 1, by |-> "nan"]]
    /\ outcome' = [outcome EXCEPT ![p] = Append(@, "Success")]
    /\ pc' = [pc EXCEPT ![p] = "refs"]
    /\ UNCHANGED <<globalEpoch, lastLoad, handle, deadline, cancelCalls, publish, exc, store>>
    /\ UNCHANGED aux

\* forward.py 287-298, 361-368: NaNs in the new weights; load epoch + 1 and,
\* when that fails, load epoch; then cancel and zero the optimizer gradients
ClassifyNaN(p) ==
    /\ pc[p] = "waiting"
    /\ WaitOver(p)
    /\ Done(p)
    /\ \E netOK1 \in BOOLEAN, netOK2 \in BOOLEAN :
         LET r1 == LoadStateFromPeer(p, globalEpoch[p], localEpoch[p] + 1, netOK1)
             r2 == LoadStateFromPeer(p, globalEpoch[p], localEpoch[p], netOK2)
             r  == IF r1.ok THEN r1 ELSE r2
         IN  /\ localEpoch' = [localEpoch EXCEPT ![p] = r.epoch]
             /\ localSamples' = [localSamples EXCEPT ![p] = r.samples]
             /\ lastLoad' = [lastLoad EXCEPT ![p] = LoadRecord("nan", r)]
             /\ model' = [model EXCEPT ![p] = IF r.ok THEN r.model ELSE Corrupt(p)]
             /\ globalEpoch' = [globalEpoch EXCEPT ![p] = r.global]
    /\ outcome' = [outcome EXCEPT ![p] = Append(@, "Error")]
    /\ Cancel(p)
    /\ EndForward(p, FALSE)
    /\ UNCHANGED <<acc, deadline, pubEpoch, pubOK, store>>
    /\ UNCHANGED aux

\* forward.py 244-249, 356-359: the wait is over and the handle is not done;
\* load_state_from_peer(self)
ClassifyTimeout(p) ==
    /\ pc[p] = "waiting"
    /\ WaitOver(p)
    /\ ~Done(p)
    /\ \E netOK \in BOOLEAN :
         LET r == LoadStateFromPeer(p, globalEpoch[p], None, netOK)
         IN  /\ localEpoch' = [localEpoch EXCEPT ![p] = r.epoch]
             /\ localSamples' = [localSamples EXCEPT ![p] = r.samples]
             /\ lastLoad' = [lastLoad EXCEPT ![p] = LoadRecord("timeout", r)]
             /\ model' = [model EXCEPT ![p] = r.model]
             /\ globalEpoch' = [globalEpoch EXCEPT ![p] = r.global]
    /\ outcome' = [outcome EXCEPT ![p] = Append(@, "Timeout")]
    /\ pc' = [pc EXCEPT ![p] = "cleanup"]
    /\ UNCHANGED <<acc, handle, deadline, cancelCalls, publish, exc, store>>
    /\ UNCHANGED aux

\* forward.py 361-368 after the load of a timed-out round, during which the
\* reduction may still have finished
Cleanup(p) ==
    /\ pc[p] = "cleanup"
    /\ Cancel(p)
    /\ EndForward(p, FALSE)
    /\ UNCHANGED <<progress, acc, deadline, outcome, pubEpoch, pubOK, store>>
    /\ UNCHANGED aux

\* forward.py 306-314: refs = list_repo_refs(...); publish only when the
\* maximum tag is below the new local epoch
ListRefs(p) ==
    /\ pc[p] = "refs"
    /\ LET t == MaxTag(tags)
       IN  IF t # None /\ t < localEpoch[p]
           THEN /\ pc' = [pc EXCEPT ![p] = "push"]
                /\ tagName' = [tagName EXCEPT ![p] = t]
                /\ pubEpoch' = [pubEpoch EXCEPT ![p] = localEpoch[p]]
                /\ UNCHANGED <<attempt, exc>>
           ELSE /\ EndForward(p, FALSE)
                /\ UNCHANGED pubEpoch
    /\ UNCHANGED <<progress, acc, round, pubOK, store>>
    /\ UNCHANGED aux

\* forward.py 319: self.model.push_to_hub(model_name) commits to main
PushToHub(p) ==
    /\ pc[p] = "push"
    /\ main' = model[p]
    /\ pc' = [pc EXCEPT ![p] = "tag"]
    /\ UNCHANGED <<progress, acc, round, publish, exc, tags, optMain, optTags>>
    /\ UNCHANGED aux

\* forward.py 342-354: push_to_hub or create_tag raised another exception; the
\* attempt is counted and the last one re-raised
UploadFail(p) ==
    /\ pc[p] \in {"push", "tag"}
    /\ IF attempt[p] + 1 < RetryLimit
       THEN /\ attempt' = [attempt EXCEPT ![p] = @ + 1]
            /\ pc' = [pc EXCEPT ![p] = "push"]
            /\ UNCHANGED <<tagName, exc>>
       ELSE EndForward(p, TRUE)
    /\ UNCHANGED <<progress, acc, round, pubEpoch, pubOK, store>>
    /\ UNCHANGED aux

\* forward.py 320-331: create_tag(tag=str(epoch)) tags the head of main; then
\* the tags are listed again
CreateTag(p) ==
    /\ pc[p] = "tag"
    /\ localEpoch[p] \notin DOMAIN tags
    /\ tags' = (localEpoch[p] :> main) @@ tags
    /\ optTags' = (localEpoch[p] :> optMain) @@ optTags
    /\ pubOK' = [pubOK EXCEPT ![p] = TRUE]
    /\ EndForward(p, FALSE)
    /\ UNCHANGED <<progress, acc, round, pubEpoch, main, optMain>>
    /\ UNCHANGED aux

\* forward.py 333-341: create_tag answers 409, the tag exists (HfHubHTTPError);
\* load_state_from_peer(self, epoch=tag_name) and leave the loop when it loaded
TagConflict(p) ==
    /\ pc[p] = "tag"
    /\ localEpoch[p] \in DOMAIN tags
    /\ \E netOK \in BOOLEAN :
         LET r == LoadStateFromPeer(p, globalEpoch[p], tagName[p], netOK)
         IN  /\ localEpoch' = [localEpoch EXCEPT ![p] = r.epoch]
             /\ localSamples' = [localSamples EXCEPT ![p] = r.samples]
             /\ lastLoad' = [lastLoad EXCEPT ![p] = LoadRecord("conflict", r)]
             /\ model' = [model EXCEPT ![p] = r.model]
             /\ globalEpoch' = [globalEpoch EXCEPT ![p] = r.global]
             /\ IF r.ok
                THEN EndForward(p, FALSE)
                ELSE /\ pc' = [pc EXCEPT ![p] = "push"]
                     /\ UNCHANGED <<tagName, attempt, exc>>
    /\ UNCHANGED <<acc, round, pubEpoch, pubOK, store>>
    /\ UNCHANGED aux

\* the validator's loop goes on to its next step after a step that raised
CallAgain(p) ==
    /\ pc[p] = "raised"
    /\ pc' = [pc EXCEPT ![p] = "idle"]
    /\ UNCHANGED <<progress, acc, round, publish, exc, store>>
    /\ UNCHANGED aux

Next ==
    \E p \in Peers :
        \/ CallAgain(p)
        \/ ForwardTrain(p)
        \/ ForwardNoMiners(p)
        \/ ForwardAllReduce(p)
        \/ ForwardLaunchRaise(p)
        \/ HandleComplete(p)
        \/ DeadlinePass(p)
        \/ ClassifySuccess(p)
        \/ ClassifyUnchanged(p)
        \/ ClassifyNaN(p)
        \/ ClassifyTimeout(p)
        \/ Cleanup(p)
        \/ ListRefs(p)
        \/ PushToHub(p)
        \/ UploadFail(p)
        \/ CreateTag(p)
        \/ TagConflict(p)

Spec == Init /\ [][Next]_vars

\* ------------------------------------------------ one validator, SpecRound
\* One validator in full; the other validators of the network are seen through
\* the repository only: one of them publishes the next epoch.
InitRound ==
    /\ InitState
    /\ pc = [p \in Peers |-> IF p = "A" THEN "idle" ELSE "off"]

\* forward.py 319-325 as run by another validator: push_to_hub, then
\* create_tag of the epoch after the latest tag
OtherPublish ==
    LET e == MaxTag(tags) + 1
    IN  /\ e <= MaxEpoch
        /\ main' = [ep |-> e, by |-> "other"]
        /\ tags' = (e :> main') @@ tags
        /\ optTags' = (e :> optMain) @@ optTags
        /\ UNCHANGED optMain
        /\ UNCHANGED <<pc, progress, acc, round, publish, exc, aux>>

NextRound == Next \/ OtherPublish

SpecRound == InitRound /\ [][NextRound]_vars

\* ------------------------------- a repository that may be new, SpecStore
\* One validator alone with a repository that accepts every upload and that
\* has its first tag or no tag yet (refs.tags empty, forward.py 309-311).
InitStore ==
    /\ pc = [p \in Peers |-> IF p = "A" THEN "idle" ELSE "off"]
    /\ localEpoch = [p \in Peers |-> 0]
    /\ localSamples = [p \in Peers |-> 0]
    /\ model = [p \in Peers |-> Genesis]
    /\ lastLoad = [p \in Peers |-> NoLoad]
    /\ acc = [p \in Peers |-> 0]
    /\ handle = [p \in Peers |-> "none"]
    /\ deadline = [p \in Peers |-> FALSE]
    /\ cancelCalls = [p \in Peers |-> 0]
    /\ outcome = [p \in Peers |-> <<>>]
    /\ tagName = [p \in Peers |-> None]
    /\ attempt = [p \in Peers |-> 0]
    /\ pubEpoch = [p \in Peers |-> None]
    /\ pubOK = [p \in Peers |-> FALSE]
    /\ exc = [p \in Peers |-> FALSE]
    /\ main = Genesis
    /\ optMain = 0
    /\ tags \in {<<>>, (0 :> Genesis)}
    /\ optTags = [n \in DOMAIN tags |-> optMain]
    /\ globalEpoch = [p \in Peers |-> MaxTag(tags)]
    /\ InitGroupVars
    /\ gpc = [p \in Peers |-> "off"]
    /\ InitDTVars

\* forward() of the validator; no hub call of its publish fails
ForwardStore(p) ==
    \/ CallAgain(p)
    \/ ForwardTrain(p)
    \/ ForwardNoMiners(p)
    \/ ForwardAllReduce(p)
    \/ ForwardLaunchRaise(p)
    \/ HandleComplete(p)
    \/ DeadlinePass(p)
    \/ ClassifySuccess(p)
    \/ ClassifyUnchanged(p)
    \/ ClassifyNaN(p)
    \/ ClassifyTimeout(p)
    \/ Cleanup(p)
    \/ ListRefs(p)
    \/ PushToHub(p)
    \/ CreateTag(p)

NextStore == ForwardStore("A")

SpecStore == InitStore /\ [][NextStore]_vars

\* forward() is a coroutine that runs on once it was called
FairSpecStore == SpecStore /\ WF_vars(NextStore)

\* ------------------------------------------ load_state_from_peer alone
\* Validator A outside forward() with any local progress, its global epoch
\* as read at start-up
InitLoad ==
    /\ pc = [p \in Peers |-> "off"]
    /\ \E e \in 0..MaxEpoch :
           localEpoch = [p \in Peers |-> IF p = "A" THEN e ELSE 0]
    /\ \E n \in {0, TrainBatch} :
           localSamples = [p \in Peers |-> IF p = "A" THEN n ELSE 0]
    /\ globalEpoch = [p \in Peers |-> 0]
    /\ model = [p \in Peers |-> [ep |-> localEpoch[p], by |-> p]]
    /\ lastLoad = [p \in Peers |-> NoLoad]
    /\ acc = [p \in Peers |-> 0]
    /\ handle = [p \in Peers |-> "none"]
    /\ deadline = [p \in Peers |-> FALSE]
    /\ cancelCalls = [p \in Peers |-> 0]
    /\ outcome = [p \in Peers |-> <<>>]
    /\ tagName = [p \in Peers |-> None]
    /\ attempt = [p \in Peers |-> 0]
    /\ pubEpoch = [p \in Peers |-> None]
    /\ pubOK = [p \in Peers |-> FALSE]
    /\ exc = [p \in Peers |-> FALSE]
    /\ main = Genesis
    /\ tags = (0 :> Genesis)
    /\ optMain = 0
    /\ optTags = (0 :> optMain)
    /\ InitGroupVars
    /\ gpc = [p \in Peers |-> "off"]
    /\ InitDTVars

\* the arguments load_state_from_peer is called with
EpochArgs == {None} \cup (0..MaxEpoch)

\* the call repeats the validator's last call, which loaded, and the
\* repository has no new tag since
Repeats(p, epochArg) ==
    /\ lastLoad[p].site \in {"call", "again"}
    /\ lastLoad[p].ok
    /\ lastLoad[p].arg = epochArg
    /\ lastLoad[p].latest = GetGlobalEpoch

\* the commit a revision of the repository resolves to
CommitOf(epoch) == FromPretrained(epoch)

\* state_loader.py 94-103: hf_hub_download("optimizer.pt", revision=str(epoch))
\* reads the tag named str(epoch), tag "0" for epoch 0
OptimizerCommit(epoch) == tags[epoch]

\* a clean-up that is given no current revision
CleanupOldCacheAll(revisions, currentRevision) == {}

\* state_loader.py 276-308: every cached revision of the repository is deleted
\* but the one whose commit_hash is current_revision
CleanupOldCache(revisions, currentRevision) ==
    {r \in revisions : r = currentRevision}

\* state_loader.py 207-273: load_state_from_peer(self, epoch=epochArg); what
\* from_pretrained and hf_hub_download fetched is in the cache, and
\* cleanup_old_cache(self) runs after a load, unless it raises (260-264)
LoadCall(p) ==
    /\ pc[p] = "off"
    /\ \E epochArg \in EpochArgs, netOK \in BOOLEAN :
         LET r == LoadStateFromPeer(p, globalEpoch[p], epochArg, netOK)
         IN  /\ localEpoch' = [localEpoch EXCEPT ![p] = r.epoch]
             /\ localSamples' = [localSamples EXCEPT ![p] = r.samples]
             /\ model' = [model EXCEPT ![p] = r.model]
             /\ globalEpoch' = [globalEpoch EXCEPT ![p] = r.global]
             /\ lastLoad' = [lastLoad EXCEPT ![p] =
                    [site   |-> IF Repeats(p, epochArg) THEN "again" ELSE "call",
                     ok     |-> r.ok,
                     epoch  |-> r.rev,
                     latest |-> r.latest,
                     arg    |-> epochArg]]
             /\ IF r.ok
                THEN LET fetched == cache[p] \cup
                                       {CommitOf(r.rev), OptimizerCommit(r.rev)}
                     IN  /\ commitHash' = [commitHash EXCEPT ![p] = CommitOf(r.rev)]
                         /\ \E cleaned \in BOOLEAN :
                                cache' = [cache EXCEPT ![p] =
                                    IF cleaned
                                    THEN CleanupOldCache(fetched, commitHash'[p])
                                    ELSE fetched]
                ELSE UNCHANGED disk
    /\ UNCHANGED <<pc, acc, round, publish, exc, store>>
    /\ UNCHANGED <<groupVars, dtMinerUids, pool, isLoading, lastLoadedEpoch,
                   loader, blocksSinceAllreduce, trackerUp, rewardVars, clock, retry, safe, initDht>>

NextLoad ==
    \/ OtherPublish
    \/ LoadCall("A")

SpecLoad == InitLoad /\ [][NextLoad]_vars

\* the source of the global progress stops or starts answering
TrackerChange ==
    /\ trackerUp' = ~trackerUp
    /\ UNCHANGED <<forwardVars, groupVars, dtMinerUids, pool, isLoading,
                   lastLoadedEpoch, loader, blocksSinceAllreduce, apart>>

\* SpecRound with a source of the global progress that comes and goes
NextTracker == NextRound \/ TrackerChange

SpecTracker == InitRound /\ [][NextTracker]_vars

\* SpecRound with optimizer steps that leave NaNs in the weights
NextNaN == NextRound \/ ClassifySuccessCorrupt("A")

SpecNaN == InitRound /\ [][NextNaN]_vars

\* a validator outside forward(), nothing loaded or published yet
InitOff ==
    /\ InitLoad
    /\ localEpoch = [p \in Peers |-> 0]
    /\ localSamples = [p \in Peers |-> 0]

\* ------------------------------------------- get_rewards (SpecReward)
\* One validator scores the answers of NumUids miners, pass after pass.
\* A score is the fraction num / den, den > 0.
Score(n, d) == [num |-> n, den |-> d]

Times(a, b) == Score(a.num * b.num, a.den * b.den)

Abs(x) == IF x < 0 THEN 0 - x ELSE x

UidIndex == 1..NumUids

\* what one miner can answer: dendrite.status_code, loss != [] and gradients
Response ==
    [status : {200, 408}, loss : BOOLEAN, gradients : 0..MaxGrad]

\* the uids of the metagraph: those a query goes to and one more
Metagraph == 1..(NumUids + 1)

\* self.miner_uids of the query that brought resp: one uid per response,
\* none when nothing was queried (template forward.py 206-207)
MinerUids(resp) == [i \in DOMAIN resp |-> i]

\* what get_random_uids(self, dendrite, k=sample_size) can return: up to
\* NumUids different uids of the metagraph
RandomUids ==
    {u \in UNION {[1..k -> Metagraph] : k \in 1..NumUids} :
        \A i, j \in DOMAIN u : i # j => u[i] # u[j]}

\* torch.FloatTensor([0 for _ in uids])
Zeros(uids) == [i \in DOMAIN uids |-> Score(0, 1)]

\* reward.py 29-69: 1 - |local sum of the layer's gradients - the miner's|
ScoreGradients(gradients, response) ==
    Score(1 - Abs(gradients - response.gradients), 1)

\* reward.py 72-85: 0.0 for a uid the DHT does not resolve, 1.0 for the
\* others, whatever the score was
ScoreBlacklistPass(resolved, s) ==
    [i \in DOMAIN s |-> IF resolved[i] THEN Score(1, 1) ELSE Score(0, 1)]

\* reward.py 87-115: 1 / the seconds the download of the peer's state took,
\* 0 for no peer, no state, a time-out or an exception (elapsed None)
ScoreBandwidth(resolved, elapsed, s) ==
    [i \in DOMAIN s |->
        IF ~resolved[i] \/ elapsed[i] = None THEN Score(0, 1)
        ELSE Score(1, elapsed[i])]

\* reward.py 117-179: get_rewards(self, uids, responses, all_reduce): the
\* scores it returns and the uids they were computed for. The first test
\* looks at response[0] of responses[0] only; with all_reduce the uids are
\* drawn again (147); random.sample with k = min(4, len) takes every index of
\* test_uids_index up to four
GetRewards(resp, all_reduce, selfStep, sampled, resolved, elapsed, gradients) ==
    IF resp = <<>> \/ ~(resp[1].status = 200 /\ resp[1].loss)
    THEN IF all_reduce
         THEN [uids   |-> sampled,
               scores |-> ScoreBandwidth(resolved, elapsed,
                              ScoreBlacklistPass(resolved, Zeros(sampled)))]
         ELSE [uids |-> MinerUids(resp), scores |-> Zeros(MinerUids(resp))]
    ELSE LET uids == MinerUids(resp)
             timeoutScores ==
                 [i \in DOMAIN uids |->
                     IF resp[i].status = 200 /\ resp[i].loss
                     THEN Score(1, 1) ELSE Score(0, 1)]
             blacklisted ==
                 IF selfStep % BlacklistEvery = 0
                 THEN ScoreBlacklistPass(resolved, timeoutScores)
                 ELSE timeoutScores
             test_uids_sample_index == {i \in DOMAIN uids : resp[i].status = 200}
         IN  [uids   |-> uids,
              scores |-> [i \in DOMAIN uids |->
                 IF i \in test_uids_sample_index
                 THEN Times(blacklisted[i], ScoreGradients(gradients[i], resp[i]))
                 ELSE blacklisted[i]]]

\* template forward.py 184-236: a new forward() has no rewards yet; the miners
\* answer its query, or no miner was found to query
Query ==
    /\ rpc = "query"
    /\ step <= MaxStep
    /\ rpc' = "reward"
    /\ responses' \in {<<>>} \cup [UidIndex -> Response]
    /\ allReduce' \in BOOLEAN
    /\ rewards' = <<>>
    /\ scoredUids' = <<>>
    /\ UNCHANGED step
    /\ UNCHANGED <<forwardVars, groupVars, dtMinerUids, pool, isLoading,
                   lastLoadedEpoch, loader, blocksSinceAllreduce, trackerUp,
                   disk, clock, retry, safe, initDht>>

\* template forward.py 402-406: rewards = await get_rewards(...); the neuron
\* counts the step after forward()
Reward ==
    /\ rpc = "reward"
    /\ rpc' = "query"
    /\ \E sampled \in RandomUids,
          resolved \in [UidIndex -> BOOLEAN],
          elapsed \in [UidIndex -> {None} \cup (1..MaxElapsed)],
          gradients \in [UidIndex -> 0..MaxGrad] :
            LET r == GetRewards(responses, allReduce, step, sampled,
                                resolved, elapsed, gradients)
            IN  /\ rewards' = r.scores
                /\ scoredUids' = r.uids
    /\ step' = step + 1
    /\ UNCHANGED <<responses, allReduce>>
    /\ UNCHANGED <<forwardVars, groupVars, dtMinerUids, pool, isLoading,
                   lastLoadedEpoch, loader, blocksSinceAllreduce, trackerUp,
                   disk, clock, retry, safe, initDht>>

NextReward == Query \/ Reward

SpecReward == InitOff /\ [][NextReward]_vars

\* -------------------------- load_state_from_peer, try by try (SpecRetry)
\* Validator A calls load_state_from_peer again and again while other
\* validators publish; every call of load_model_optimizer_gradient_averager
\* is a step.
\* state_loader.py 208-229: the latest tag is read when no epoch is given
\* (the read can raise, which the outer handler turns into False); the loop
\* is entered when a global epoch is known
LoadBegin(p) ==
    /\ pc[p] = "off"
    /\ lpc = "off"
    /\ \E epochArg \in EpochArgs, raised \in BOOLEAN :
         LET glob == IF epochArg = None /\ ~raised
                     THEN GetGlobalEpoch ELSE globalEpoch[p]
         IN  /\ globalEpoch' = [globalEpoch EXCEPT ![p] = glob]
             /\ loadEpoch' = IF epochArg = None THEN glob ELSE epochArg
             /\ IF (epochArg = None /\ raised) \/ glob = None
                THEN /\ lpc' = "done"
                     /\ stateLoaded' = "False"
                ELSE /\ lpc' = "loop"
                     /\ stateLoaded' = "none"
    /\ loadAttempt' = 0
    /\ loadCalls' = 0
    /\ UNCHANGED <<pc, localEpoch, localSamples, model, lastLoad, acc, round,
                   publish, exc, store>>
    /\ UNCHANGED <<groupVars, dtMinerUids, pool, isLoading, lastLoadedEpoch,
                   loader, blocksSinceAllreduce, trackerUp, disk, rewardVars,
                   clock, safe, initDht>>

\* a retry loop that gives up one attempt late
LoadTryOnceMore(p) ==
    /\ lpc = "loop"
    /\ loadAttempt <= MaxAttempts
    /\ loadCalls' = loadCalls + 1
    /\ loadAttempt' = loadAttempt + 1
    /\ IF loadAttempt' > MaxAttempts
       THEN /\ lpc' = "done"
            /\ stateLoaded' = "False"
       ELSE UNCHANGED <<lpc, stateLoaded>>
    /\ UNCHANGED <<loadEpoch, forwardVars>>
    /\ UNCHANGED <<groupVars, dtMinerUids, pool, isLoading, lastLoadedEpoch,
                   loader, blocksSinceAllreduce, trackerUp, disk, rewardVars,
                   clock, safe, initDht>>

\* state_loader.py 231-257, 271-273: one pass of while attempt < MAX_ATTEMPTS.
\* The load succeeds (break, then the local progress is set and True
\* returned), or it raises: attempt is counted, and at MAX_ATTEMPTS the
\* exception raised at 239 is caught at 271 and False returned
LoadTry(p) ==
    /\ lpc = "loop"
    /\ loadAttempt < MaxAttempts
    /\ loadCalls' = loadCalls + 1
    /\ \E netOK \in BOOLEAN :
         IF netOK /\ RevisionExists(loadEpoch)
         THEN /\ model' = [model EXCEPT ![p] = FromPretrained(loadEpoch)]
              /\ localEpoch' = [localEpoch EXCEPT ![p] = globalEpoch[p]]
              /\ localSamples' = [localSamples EXCEPT ![p] = 0]
              /\ stateLoaded' = "True"
              /\ lpc' = "done"
              /\ UNCHANGED loadAttempt
         ELSE /\ loadAttempt' = loadAttempt + 1
              /\ IF loadAttempt' = MaxAttempts
                 THEN /\ lpc' = "done"
                      /\ stateLoaded' = "False"
                 ELSE UNCHANGED <<lpc, stateLoaded>>
              /\ UNCHANGED <<model, localEpoch, localSamples>>
    /\ UNCHANGED <<pc, globalEpoch, lastLoad, acc, round, publish, exc, store,
                   loadEpoch>>
    /\ UNCHANGED <<groupVars, dtMinerUids, pool, isLoading, lastLoadedEpoch,
                   loader, blocksSinceAllreduce, trackerUp, disk, rewardVars,
                   clock, safe, initDht>>

\* the caller has the returned value; the validator trains on
LoadReturn(p) ==
    /\ lpc = "done"
    /\ lpc' = "off"
    /\ \E n \in {0, TrainBatch} :
           localSamples' = [localSamples EXCEPT ![p] = n]
    /\ UNCHANGED <<pc, localEpoch, globalEpoch, model, lastLoad, acc, round,
                   publish, exc, store>>
    /\ UNCHANGED <<loadEpoch, loadAttempt, loadCalls, stateLoaded>>
    /\ UNCHANGED <<groupVars, dtMinerUids, pool, isLoading, lastLoadedEpoch,
                   loader, blocksSinceAllreduce, trackerUp, disk, rewardVars,
                   clock, safe, initDht>>

NextRetry ==
    \/ OtherPublish
    \/ LoadBegin("A")
    \/ LoadTry("A")
    \/ LoadReturn("A")

SpecRetry == InitLoad /\ [][NextRetry]_vars

\* ------------------------------------------- ttl_get_block (SpecTtl)
\* One process calls ttl_get_block(self) at any moment of a clock that runs
\* in seconds.
Tick ==
    /\ now < MaxTime
    /\ now' = now + 1
    /\ UNCHANGED <<startTime, lru, reached>>
    /\ UNCHANGED <<forwardVars, groupVars, dtMinerUids, pool, isLoading,
                   lastLoadedEpoch, loader, blocksSinceAllreduce, trackerUp,
                   disk, rewardVars, retry, safe, initDht>>

\* misc.py 95-111: floor((time.time() - start_time) / seconds), start_time
\* taken when the generator runs first, at the first next(hash_gen)
TtlHash(start) == (now - start) \div Ttl

\* misc.py 50-92, 114-134: wrapped() takes the next hash and calls ttl_func
\* through lru_cache(maxsize=1): the entry of the same hash answers, any
\* other hash calls self.subtensor.get_current_block(), whose result
\* replaces the entry unless the call raised
TtlGetBlock ==
    LET start == IF startTime = None THEN now ELSE startTime
        th == TtlHash(start)
    IN  /\ startTime' = start
        /\ IF lru.hash = th
           THEN UNCHANGED <<lru, reached>>
           ELSE /\ reached' = <<reached[2], now>>
                /\ \E raised \in BOOLEAN :
                       lru' = IF raised THEN lru ELSE [hash |-> th, at |-> now]
        /\ UNCHANGED now
        /\ UNCHANGED <<forwardVars, groupVars, dtMinerUids, pool, isLoading,
                       lastLoadedEpoch, loader, blocksSinceAllreduce, trackerUp,
                       disk, rewardVars, retry, safe, initDht>>

NextTtl == Tick \/ TtlGetBlock

SpecTtl == InitOff /\ [][NextTtl]_vars
\* ============================================================== claims
\* ------------------------------------- perform_all_reduce, SpecGroup
\* Two validators form the group of a round from the miners the DHT resolves.
\* forward.py 106-108: the items whose blacklist score is not 0.0, in order,
\* from position i on
RECURSIVE Filter(_, _, _)
Filter(items, scores, i) ==
    IF i > Len(items) THEN <<>>
    ELSE (IF scores[i] # 0 THEN <<items[i]>> ELSE <<>>)
         \o Filter(items, scores, i + 1)

\* reward.py 72-85: score_blacklist resolves every uid again: 0.0 for a uid
\* without a peer id, 1.0 otherwise
ScoreBlacklist(uids) ==
    [i \in 1..Len(uids) |-> IF directory[uids[i]] = NoPeer THEN 0 ELSE 1]

\* forward.py 85-95: the condition that keeps the while loop going; enumerate
\* counts from 0 and the position, not the uid, is compared with self.uid
KeepPolling(p, scores, peerids) ==
    \/ peerids = Unset
    \/ scores = Unset
    \/ \E i \in 1..Len(scores) :
           i - 1 # Uid(p) /\ scores[i] # 0 /\ peerids[i] = NoPeer

\* forward.py 189-194, 206, 213-215: get_random_uids, a non-empty list, and
\* perform_all_reduce is entered
GetRandomUids(p) ==
    /\ gpc[p] = "start"
    /\ \E l \in UidLists : minerUids' = [minerUids EXCEPT ![p] = l]
    /\ groupPeerids' = [groupPeerids EXCEPT ![p] = Unset]
    /\ blacklistScores' = [blacklistScores EXCEPT ![p] = Unset]
    /\ orderedPeerIds' = [orderedPeerIds EXCEPT ![p] = Unset]
    /\ groupId' = [groupId EXCEPT ![p] = NoPeer]
    /\ gpc' = [gpc EXCEPT ![p] = "map"]
    /\ UNCHANGED <<directory, forwardVars, dtVars>>

\* forward.py 97-98: group_peerids = await map_uid_to_peerid(self, miner_uids)
MapUidToPeerid(p) ==
    /\ gpc[p] = "map"
    /\ groupPeerids' = [groupPeerids EXCEPT ![p] =
           [i \in 1..Len(minerUids[p]) |-> directory[minerUids[p][i]]]]
    /\ gpc' = [gpc EXCEPT ![p] = "score"]
    /\ UNCHANGED <<directory, minerUids, blacklistScores, orderedPeerIds,
                   groupId, forwardVars, dtVars>>

\* forward.py 99 and 84-96: blacklist_scores = await score_blacklist(...), then
\* the loop condition is evaluated again
PollScores(p) ==
    /\ gpc[p] = "score"
    /\ LET scores == ScoreBlacklist(minerUids[p])
       IN  /\ blacklistScores' = [blacklistScores EXCEPT ![p] = scores]
           /\ gpc' = [gpc EXCEPT ![p] =
                  IF KeepPolling(p, scores, groupPeerids[p]) THEN "map" ELSE "filter"]
    /\ UNCHANGED <<directory, minerUids, groupPeerids, orderedPeerIds, groupId,
                   forwardVars, dtVars>>

\* forward.py 105-132: the uids with score 0 are dropped, the group is
\* [self.dht.peer_id] + list(group_peerids.values()) under a fresh DHTID, and
\* grad_averager.step(custom_group_info) is started; peer_id.to_string() of a
\* uid that did not resolve raises
FormGroup(p) ==
    /\ gpc[p] = "filter"
    /\ LET peerids == Filter(groupPeerids[p], blacklistScores[p], 1)
           ordered == <<PeerIdOf(p)>> \o peerids
       IN  /\ groupPeerids' = [groupPeerids EXCEPT ![p] = peerids]
           /\ minerUids' = [minerUids EXCEPT ![p] =
                  Filter(minerUids[p], blacklistScores[p], 1)]
           /\ \E g \in GroupIds : groupId' = [groupId EXCEPT ![p] = g]
           /\ IF \E i \in 1..Len(ordered) : ordered[i] = NoPeer
              THEN /\ gpc' = [gpc EXCEPT ![p] = "raised"]
                   /\ UNCHANGED orderedPeerIds
              ELSE /\ gpc' = [gpc EXCEPT ![p] = "launched"]
                   /\ orderedPeerIds' = [orderedPeerIds EXCEPT ![p] = ordered]
    /\ UNCHANGED <<directory, blacklistScores, forwardVars, dtVars>>

\* a miner joins or leaves the DHT
DirectoryChange ==
    /\ \E u \in Miners :
           directory' = [directory EXCEPT ![u] =
               IF @ = NoPeer THEN MinerPeerId(u) ELSE NoPeer]
    /\ UNCHANGED <<gpc, minerUids, groupPeerids, blacklistScores, orderedPeerIds,
                   groupId, forwardVars, dtVars>>

InitGroup ==
    /\ InitForward
    /\ pc = [p \in Peers |-> "off"]
    /\ InitGroupVars
    /\ gpc = [p \in Peers |-> "start"]
    /\ InitDTVars
    /\ optMain = 0

NextGroup ==
    \/ DirectoryChange
    \/ \E p \in Peers :
        \/ GetRandomUids(p)
        \/ MapUidToPeerid(p)
        \/ PollScores(p)
        \/ FormGroup(p)

SpecGroup == InitGroup /\ [][NextGroup]_vars

\* ------------------- distributed_training/validator/forward.py, SpecDT
\* The master validator coordinates the round and publishes; the other
\* validator only joins the reduction.  Every process has a thread that loads
\* the latest state under the ModelLoadingManager.
\* self.uid == self.master_uid
IsMaster(p) == p = "A"

\* state_loader.py 35-39: ModelLoadingManager.set_loading_state(is_loading, epoch)
SetLoadingState(p, isLoadingArg, epoch) ==
    /\ isLoading' = [isLoading EXCEPT ![p] = isLoadingArg]
    /\ lastLoadedEpoch' = [lastLoadedEpoch EXCEPT ![p] =
           IF ~isLoadingArg /\ epoch # None THEN epoch ELSE @]

\* what forward() of distributed_training leaves alone
dtUnused == <<acc, round, tagName, pubOK, groupVars>>
\* what a validator process sees of the network and the chain
env == <<pool, blocksSinceAllreduce, trackerUp>>

manager == <<isLoading, lastLoadedEpoch>>

\* forward.py 52-54: should_allreduce is computed from the blocks since the
\* last round and then assigned True
ShouldAllreduce ==
    LET should_allreduce == blocksSinceAllreduce >= BlocksPerAllreduce
    IN  should_allreduce \/ TRUE

\* forward.py 44-57: update_global_tracker_state, load_state_from_peer(self,
\* epoch=global) when the epochs differ, self.miner_uids = []
DTBegin(p) ==
    /\ pc[p] = "idle"
    /\ ShouldAllreduce
    /\ \E netOK \in BOOLEAN :
         LET g == UpdateGlobalTrackerState(p)
             r == LoadStateFromPeer(p, g, g, netOK)
             differ == localEpoch[p] # g
         IN  /\ localEpoch' = [localEpoch EXCEPT ![p] = IF differ THEN r.epoch ELSE @]
             /\ localSamples' = [localSamples EXCEPT ![p] = IF differ THEN r.samples ELSE @]
             /\ model' = [model EXCEPT ![p] = IF differ THEN r.model ELSE @]
             /\ globalEpoch' = [globalEpoch EXCEPT ![p] = g]
    /\ dtMinerUids' = [dtMinerUids EXCEPT ![p] = 0]
    /\ exc' = [exc EXCEPT ![p] = FALSE]
    /\ attempt' = [attempt EXCEPT ![p] = 0]
    /\ pc' = [pc EXCEPT ![p] = IF IsMaster(p) THEN "poll" ELSE "reduce"]
    /\ UNCHANGED <<lastLoad, store, pubEpoch, dtUnused, manager, loader, env, apart>>

\* forward.py 73-82: while len(self.miner_uids) < min_group_size - 1:
\* self.miner_uids = await get_random_uids(...), which finds some of the
\* miners that are active now
DTPoll(p) ==
    /\ pc[p] = "poll"
    /\ dtMinerUids[p] < MinGroupSize - 1
    /\ \E n \in 0..pool : dtMinerUids' = [dtMinerUids EXCEPT ![p] = n]
    /\ UNCHANGED <<forwardVars, groupVars, manager, loader, env, apart>>

\* the round can be handed to run_validator_allreduce: forward.py 84-97 for
\* the master, 131-141 for the others
Ready(p) ==
    IF IsMaster(p)
    THEN pc[p] = "poll" /\ dtMinerUids[p] >= MinGroupSize - 1
    ELSE pc[p] = "reduce"

\* a successful round that counts the epoch twice and keeps the samples
DTReduceSuccessCountsTwice(p) ==
    /\ Ready(p)
    /\ localEpoch[p] < MaxEpoch
    /\ localEpoch' = [localEpoch EXCEPT ![p] = @ + 2]
    /\ model' = [model EXCEPT ![p] = [ep |-> localEpoch[p] + 2, by |-> p]]
    /\ pc' = [pc EXCEPT ![p] = IF IsMaster(p) THEN "upload" ELSE "idle"]
    /\ pubEpoch' = IF IsMaster(p)
                   THEN [pubEpoch EXCEPT ![p] = localEpoch[p] + 1]
                   ELSE pubEpoch
    /\ UNCHANGED <<localSamples, globalEpoch, lastLoad, attempt, exc, store, dtUnused,
                   manager, loader, env, apart, dtMinerUids>>

\* forward.py 98-119 and 142-158: all_reduce_success_status is true; the local
\* epoch advances and the master goes on to upload_new_state
DTReduceSuccess(p) ==
    /\ Ready(p)
    /\ localEpoch[p] < MaxEpoch
    /\ localEpoch' = [localEpoch EXCEPT ![p] = @ + 1]
    /\ localSamples' = [localSamples EXCEPT ![p] = 0]
    /\ model' = [model EXCEPT ![p] = [ep |-> localEpoch[p] + 1, by |-> p]]
    /\ pc' = [pc EXCEPT ![p] = IF IsMaster(p) THEN "upload" ELSE "idle"]
    /\ pubEpoch' = IF IsMaster(p)
                   THEN [pubEpoch EXCEPT ![p] = localEpoch[p] + 1]
                   ELSE pubEpoch
    /\ UNCHANGED <<globalEpoch, lastLoad, attempt, exc, store, dtUnused, manager,
                   loader, env, apart, dtMinerUids>>

\* forward.py 120-124 and 142: all_reduce_success_status is false; the master
\* raises into its handler, the others do nothing
DTReduceFailed(p) ==
    /\ Ready(p)
    /\ pc' = [pc EXCEPT ![p] = IF IsMaster(p) THEN "except" ELSE "idle"]
    /\ UNCHANGED <<progress, attempt, exc, store, pubEpoch, dtUnused, manager, loader,
                   env, apart, dtMinerUids>>

\* run_validator_allreduce raises: forward.py 69 and 123 catch it on the
\* master path; 131-141 is outside any try and the exception leaves forward()
DTReduceRaise(p) ==
    /\ Ready(p)
    /\ IF IsMaster(p)
       THEN /\ pc' = [pc EXCEPT ![p] = "except"]
            /\ UNCHANGED exc
       ELSE /\ pc' = [pc EXCEPT ![p] = "raised"]
            /\ exc' = [exc EXCEPT ![p] = TRUE]
    /\ UNCHANGED <<progress, attempt, store, pubEpoch, dtUnused, manager, loader, env, apart,
                   dtMinerUids>>

\* save_and_upload_state with its two hub calls in the other order: the tag
\* is made first, on the commit that is the head of main before the upload
DTTagBeforeUpload(p) ==
    /\ pc[p] = "upload"
    /\ pubEpoch[p] \notin DOMAIN tags
    /\ tags' = (pubEpoch[p] :> main) @@ tags
    /\ optTags' = (pubEpoch[p] :> optMain) @@ optTags
    /\ main' = model[p]
    /\ optMain' = pubEpoch[p]
    /\ pubEpoch' = [pubEpoch EXCEPT ![p] = None]
    /\ pc' = [pc EXCEPT ![p] = "idle"]
    /\ UNCHANGED <<progress, attempt, exc, dtUnused, manager, loader, env, apart,
                   dtMinerUids>>

\* state_loader.py 321-345: save_pretrained and optimizer.pt ("epoch": epoch)
\* go to one folder, and upload_folder commits the folder to main
DTUploadFolder(p) ==
    /\ pc[p] = "upload"
    /\ main' = model[p]
    /\ optMain' = pubEpoch[p]
    /\ pc' = [pc EXCEPT ![p] = "dtag"]
    /\ UNCHANGED <<progress, attempt, exc, tags, optTags, pubEpoch, dtUnused,
                   manager, loader, env, apart, dtMinerUids>>

\* save_and_upload_state with create_tag's exception swallowed: it returns
\* True although no tag was made
DTCreateTagSwallowed(p) ==
    /\ pc[p] = "dtag"
    /\ pubEpoch' = [pubEpoch EXCEPT ![p] = None]
    /\ pc' = [pc EXCEPT ![p] = "idle"]
    /\ UNCHANGED <<progress, attempt, exc, store, dtUnused, manager, loader,
                   env, apart, dtMinerUids>>

\* state_loader.py 348-358: create_tag(tag=str(epoch)), return True
DTCreateTag(p) ==
    /\ pc[p] = "dtag"
    /\ pubEpoch[p] \notin DOMAIN tags
    /\ tags' = (pubEpoch[p] :> main) @@ tags
    /\ optTags' = (pubEpoch[p] :> optMain) @@ optTags
    /\ pubEpoch' = [pubEpoch EXCEPT ![p] = None]
    /\ pc' = [pc EXCEPT ![p] = "idle"]
    /\ UNCHANGED <<progress, attempt, exc, main, optMain, dtUnused, manager,
                   loader, env, apart, dtMinerUids>>

\* state_loader.py 360-371: upload_folder or create_tag raised (an existing
\* tag included); retried until the limit, then re-raised into forward's
\* handler
DTUploadFail(p) ==
    /\ pc[p] \in {"upload", "dtag"}
    /\ IF attempt[p] + 1 < RetryLimit
       THEN /\ attempt' = [attempt EXCEPT ![p] = @ + 1]
            /\ pc' = [pc EXCEPT ![p] = "upload"]
            /\ UNCHANGED pubEpoch
       ELSE /\ attempt' = [attempt EXCEPT ![p] = 0]
            /\ pc' = [pc EXCEPT ![p] = "except"]
            /\ pubEpoch' = [pubEpoch EXCEPT ![p] = None]
    /\ UNCHANGED <<progress, exc, store, dtUnused, manager, loader, env, apart,
                   dtMinerUids>>

\* forward.py 123-126: the handler clears the loading flag and reads the
\* global epoch; its load_state_from_peer begins
DTHandler(p) ==
    /\ pc[p] = "except"
    /\ SetLoadingState(p, FALSE, None)
    /\ globalEpoch' = [globalEpoch EXCEPT ![p] = GetGlobalEpoch]
    /\ pc' = [pc EXCEPT ![p] = "recover"]
    /\ UNCHANGED <<localEpoch, localSamples, model, lastLoad, attempt, exc, store,
                   pubEpoch, dtUnused, loader, env, apart, dtMinerUids>>

\* forward.py 127: load_state_from_peer(self, epoch=self.global_progress.epoch)
\* ends and forward() returns
DTRecover(p) ==
    /\ pc[p] = "recover"
    /\ \E netOK \in BOOLEAN :
         LET r == LoadStateFromPeer(p, globalEpoch[p], globalEpoch[p], netOK)
         IN  /\ localEpoch' = [localEpoch EXCEPT ![p] = r.epoch]
             /\ localSamples' = [localSamples EXCEPT ![p] = r.samples]
             /\ model' = [model EXCEPT ![p] = r.model]
    /\ pc' = [pc EXCEPT ![p] = "idle"]
    /\ UNCHANGED <<globalEpoch, lastLoad, attempt, exc, store, pubEpoch, dtUnused, manager, loader,
                   env, apart, dtMinerUids>>

\* a thread of the process begins a load: it sees is_loading false and calls
\* set_loading_state(True)
LoaderBegin(p) ==
    /\ pc[p] # "stopped"
    /\ loader[p] = "idle"
    /\ ~isLoading[p]
    /\ SetLoadingState(p, TRUE, None)
    /\ loader' = [loader EXCEPT ![p] = "loading"]
    /\ UNCHANGED <<forwardVars, groupVars, env, apart, dtMinerUids>>

\* the thread's load_state_from_peer(self) ends and it calls
\* set_loading_state(False, epoch)
LoaderEnd(p) ==
    /\ pc[p] # "stopped"
    /\ loader[p] = "loading"
    /\ \E netOK \in BOOLEAN :
         LET r == LoadStateFromPeer(p, globalEpoch[p], None, netOK)
         IN  /\ localEpoch' = [localEpoch EXCEPT ![p] = r.epoch]
             /\ localSamples' = [localSamples EXCEPT ![p] = r.samples]
             /\ model' = [model EXCEPT ![p] = r.model]
             /\ globalEpoch' = [globalEpoch EXCEPT ![p] = r.global]
             /\ SetLoadingState(p, FALSE, IF r.ok THEN r.epoch ELSE None)
    /\ loader' = [loader EXCEPT ![p] = "idle"]
    /\ UNCHANGED <<pc, lastLoad, attempt, exc, store, pubEpoch, dtUnused, env, apart, dtMinerUids>>

\* the validator process stops for good inside save_and_upload_state, before
\* upload_folder or between upload_folder and create_tag
DTStop(p) ==
    /\ pc[p] \in {"upload", "dtag"}
    /\ pc' = [pc EXCEPT ![p] = "stopped"]
    /\ UNCHANGED <<progress, attempt, exc, store, pubEpoch, dtUnused, manager,
                   loader, env, apart, dtMinerUids>>

\* miners come and go
PoolChange ==
    /\ \E n \in 0..MaxPool : n # pool /\ pool' = n
    /\ UNCHANGED <<forwardVars, groupVars, manager, loader, dtMinerUids,
                   blocksSinceAllreduce, trackerUp, apart>>

\* the chain produces a block
BlockPass ==
    /\ blocksSinceAllreduce < MaxBlocks
    /\ blocksSinceAllreduce' = blocksSinceAllreduce + 1
    /\ UNCHANGED <<forwardVars, groupVars, manager, loader, dtMinerUids, pool,
                   trackerUp, apart>>

\* the steps of forward() in one validator process
DTForward(p) ==
    \/ CallAgain(p)
    \/ DTBegin(p)
    \/ DTPoll(p)
    \/ DTReduceSuccess(p)
    \/ DTReduceFailed(p)
    \/ DTReduceRaise(p)
    \/ DTUploadFolder(p)
    \/ DTCreateTag(p)
    \/ DTUploadFail(p)
    \/ DTHandler(p)
    \/ DTRecover(p)

\* the steps of the loading thread of one validator process
DTLoader(p) ==
    \/ LoaderBegin(p)
    \/ LoaderEnd(p)

InitDT ==
    /\ pc = [p \in Peers |-> "idle"]
    /\ InitState
    /\ optMain = 0

NextDT ==
    \/ PoolChange
    \/ \E p \in Peers : DTForward(p) \/ DTLoader(p) \/ DTStop(p)

SpecDT == InitDT /\ [][NextDT]_vars

\* forward() of the two validators while the chain goes on; no loading thread
NextDue ==
    \/ BlockPass
    \/ PoolChange
    \/ \E p \in Peers : DTForward(p)

SpecDue == InitDT /\ [][NextDue]_vars

\* forward() keeps running in every validator: when it can take a step that
\* changes the state, it takes one
FairSpecDT == SpecDT /\ \A p \in Peers : WF_vars(DTForward(p))

\* ---------------------------------- get_current_block_safe (SpecSafe)
\* One process calls get_current_block_safe(self) under the clock of SpecTtl
\* while the chain produces blocks. The lock makes a call one step.
ChainBlock ==
    /\ chainBlock < MaxBlocks
    /\ chainBlock' = chainBlock + 1
    /\ UNCHANGED <<bpc, lastBlock, lastBlockTime, blockRet>>
    /\ UNCHANGED <<forwardVars, groupVars, dtMinerUids, pool, isLoading,
                   lastLoadedEpoch, loader, blocksSinceAllreduce, trackerUp,
                   disk, rewardVars, clock, retry, initDht>>

\* what a call hands back and what it found: the block or the exception, did
\* it ask the chain, did the chain fail, the time and the cache at its entry
BlockResult(raised, block, queried, failed) ==
    [raised |-> raised, block |-> block, queried |-> queried,
     failed |-> failed, at |-> now, before |-> <<lastBlock, lastBlockTime>>]

\* a call that stamps the cache with the time of a query that failed
GetCurrentBlockSafeStamps ==
    /\ bpc = "idle"
    /\ bpc' = "returned"
    /\ IF lastBlock # None /\ now - lastBlockTime < BlockCacheDuration
       THEN /\ blockRet' = BlockResult(FALSE, lastBlock, FALSE, FALSE)
            /\ UNCHANGED <<lastBlock, lastBlockTime>>
       ELSE \E ok \in BOOLEAN :
              IF ok
              THEN /\ lastBlock' = chainBlock
                   /\ lastBlockTime' = now
                   /\ blockRet' = BlockResult(FALSE, chainBlock, TRUE, FALSE)
              ELSE /\ lastBlockTime' = now
                   /\ UNCHANGED lastBlock
                   /\ blockRet' = BlockResult(lastBlock = None, lastBlock, TRUE, TRUE)
    /\ UNCHANGED chainBlock
    /\ UNCHANGED <<forwardVars, groupVars, dtMinerUids, pool, isLoading,
                   lastLoadedEpoch, loader, blocksSinceAllreduce, trackerUp,
                   disk, rewardVars, clock, retry, initDht>>

\* misc.py 433-455: the cached block while it is younger than the cache
\* duration; else the chain is asked: its answer is cached with the time of
\* the call, and when it raises the last known block is returned, or the
\* exception re-raised when there is none
GetCurrentBlockSafe ==
    /\ bpc = "idle"
    /\ bpc' = "returned"
    /\ IF lastBlock # None /\ now - lastBlockTime < BlockCacheDuration
       THEN /\ blockRet' = BlockResult(FALSE, lastBlock, FALSE, FALSE)
            /\ UNCHANGED <<lastBlock, lastBlockTime>>
       ELSE \E ok \in BOOLEAN :
              IF ok
              THEN /\ lastBlock' = chainBlock
                   /\ lastBlockTime' = now
                   /\ blockRet' = BlockResult(FALSE, chainBlock, TRUE, FALSE)
              ELSE /\ UNCHANGED <<lastBlock, lastBlockTime>>
                   /\ blockRet' = BlockResult(lastBlock = None, lastBlock, TRUE, TRUE)
    /\ UNCHANGED chainBlock
    /\ UNCHANGED <<forwardVars, groupVars, dtMinerUids, pool, isLoading,
                   lastLoadedEpoch, loader, blocksSinceAllreduce, trackerUp,
                   disk, rewardVars, clock, retry, initDht>>

\* the caller goes on with what it got
BlockUsed ==
    /\ bpc = "returned"
    /\ bpc' = "idle"
    /\ UNCHANGED <<lastBlock, lastBlockTime, chainBlock, blockRet>>
    /\ UNCHANGED <<forwardVars, groupVars, dtMinerUids, pool, isLoading,
                   lastLoadedEpoch, loader, blocksSinceAllreduce, trackerUp,
                   disk, rewardVars, clock, retry, initDht>>

NextSafe == Tick \/ ChainBlock \/ GetCurrentBlockSafe \/ BlockUsed

SpecSafe == InitOff /\ [][NextSafe]_vars

\* ------------------------------------------------- init_dht (SpecDht)
\* One process runs init_dht(self) with a list of up to MaxPeers addresses.
\* misc.py 385-389: retries = 0, buffer = 5, max_retries = buffer * len(list)
DhtBegin ==
    /\ ipc = "off"
    /\ ipc' = "while"
    /\ initialPeers' \in 0..MaxPeers
    /\ retries' = 0
    /\ successfulConnection' = FALSE
    /\ UNCHANGED <<dhtPos, dht>>
    /\ UNCHANGED <<forwardVars, groupVars, dtMinerUids, pool, isLoading,
                   lastLoadedEpoch, loader, blocksSinceAllreduce, trackerUp,
                   disk, rewardVars, clock, retry, safe>>

\* misc.py 390-393: while successful_connection is False: raise when retries
\* == max_retries, else enter the two for loops; when the flag is set the
\* loop is left and init_dht returns at its end
DhtWhile ==
    /\ ipc = "while"
    /\ IF successfulConnection
       THEN ipc' = "left" /\ UNCHANGED dhtPos
       ELSE IF retries = Buffer * initialPeers
            THEN ipc' = "raised" /\ UNCHANGED dhtPos
            ELSE ipc' = "for" /\ dhtPos' = <<0, 1>>
    /\ UNCHANGED <<initialPeers, retries, successfulConnection, dht>>
    /\ UNCHANGED <<forwardVars, groupVars, dtMinerUids, pool, isLoading,
                   lastLoadedEpoch, loader, blocksSinceAllreduce, trackerUp,
                   disk, rewardVars, clock, retry, safe>>

\* the position after <<attempt, peer>> in for attempt in range(0, buffer):
\* for initial_peer in initial_peers_list; <<>> after the last one
NextPos(pos) ==
    IF pos[2] < initialPeers THEN <<pos[1], pos[2] + 1>>
    ELSE IF pos[1] < Buffer - 1 THEN <<pos[1] + 1, 1>>
    ELSE <<>>

\* misc.py 394-430: one pass of the try. hivemind.DHT(...) raises, or it
\* returns and successful_connection = True is set before the visible
\* addresses are read and logged (407-422): when those calls return the
\* function returns, when one of them raises the handler counts a retry
\* like for a failed connection and the loops go on
DhtAttempt ==
    /\ ipc = "for"
    /\ \E connected \in BOOLEAN, logged \in BOOLEAN :
         /\ successfulConnection' = (successfulConnection \/ connected)
         /\ dht' = IF connected THEN dhtPos[2] ELSE dht
         /\ IF connected /\ logged
            THEN /\ ipc' = "returned"
                 /\ UNCHANGED <<retries, dhtPos>>
            ELSE /\ retries' = retries + 1
                 /\ IF NextPos(dhtPos) = <<>>
                    THEN ipc' = "while" /\ UNCHANGED dhtPos
                    ELSE dhtPos' = NextPos(dhtPos) /\ UNCHANGED ipc
    /\ UNCHANGED initialPeers
    /\ UNCHANGED <<forwardVars, groupVars, dtMinerUids, pool, isLoading,
                   lastLoadedEpoch, loader, blocksSinceAllreduce, trackerUp,
                   disk, rewardVars, clock, retry, safe>>

NextDht == DhtBegin \/ DhtWhile \/ DhtAttempt

SpecDht == InitOff /\ [][NextDht]_vars

\* init_dht runs on once it was called
FairSpecDht == SpecDht /\ WF_vars(NextDht)

\* ------------------------------------------------------------- claims
\* C1: when two peers tried to publish the same epoch E and both calls of
\* forward() have ended without an upload error, exactly one create_tag
\* succeeded, both peers hold the state tag E points to, and local.epoch = E
\* on both.
C1_CollisionBothAtE ==
    \A p, q \in Peers :
        ( /\ p # q
          /\ pc[p] = "idle" /\ pc[q] = "idle"
          /\ ~exc[p] /\ ~exc[q]
          /\ pubEpoch[p] # None /\ pubEpoch[p] = pubEpoch[q] )
        => /\ pubOK[p] # pubOK[q]
           /\ pubEpoch[p] \in DOMAIN tags
           /\ model[p] = tags[pubEpoch[p]] /\ model[q] = tags[pubEpoch[p]]
           /\ localEpoch[p] = pubEpoch[p] /\ localEpoch[q] = pubEpoch[p]

\* C2: no publish succeeds with a tag less than or equal to the maximum tag
\* already in the repository, and the maximum tag never decreases.
C2_PublishAboveMax ==
    [][ /\ \A t \in DOMAIN tags' \ DOMAIN tags : t > MaxTag(tags)
        /\ MaxTag(tags') >= MaxTag(tags) ]_vars
\* a round attempt of this call of forward() has been classified
Classified(p) ==
    \/ pc[p] \in {"cleanup", "refs", "push", "tag"}
    \/ pc[p] \in {"idle", "raised"} /\ (handle[p] # "none" \/ exc[p])

C6_FailedRoundResetsAccumulators ==
    \A p \in Peers :
        ( /\ pc[p] = "idle"
          /\ handle[p] # "none"
          /\ outcome[p] \in {<<"Timeout">>, <<"Error">>} )
        => acc[p] = 0
\* C3: two peers that formed their group from the same miners with the same
\* scores and the same resolved peer ids hold the same ordered peer_ids.
C3_SameOrderedPeerIds ==
    \A p, q \in Peers :
        ( /\ gpc[p] = "launched" /\ gpc[q] = "launched"
          /\ minerUids[p] # <<>>
          /\ minerUids[p] = minerUids[q]
          /\ blacklistScores[p] = blacklistScores[q]
          /\ groupPeerids[p] = groupPeerids[q] )
        => orderedPeerIds[p] = orderedPeerIds[q]

\* C8: a reduction is never started on a group of fewer than min_group_size
\* peers; when every miner's blacklist score is zero none is started.
C8_NoDegenerateGroup ==
    \A p \in Peers :
        gpc[p] = "launched" =>
            /\ Len(orderedPeerIds[p]) >= MinGroupSize
            /\ \E i \in 1..Len(blacklistScores[p]) : blacklistScores[p][i] # 0
\* C7: no exception of the reduction primitive leaves forward(): on every
\* path it is caught and the step ends as a failed round.
C7_NoExceptionLeavesForward ==
    \A p \in Peers : pc[p] # "raised"

\* C9: the polling loop of group formation ends: when the miners that answer
\* never reach min_group_size - 1, a validator that is polling for miners
\* still stops polling eventually.
C9_PollingTerminates ==
    [](pool < MinGroupSize - 1) =>
        \A p \in Peers : (pc[p] = "poll") ~> (pc[p] # "poll")

\* the loads in flight in the process of p
LoadsInFlight(p) ==
    (IF loader[p] = "loading" THEN {"thread"} ELSE {}) \cup
    (IF pc[p] = "recover" THEN {"forward"} ELSE {})

\* C10: at most one load is in flight in a process, and is_loading is true
\* for as long as a load is in flight.
C10_OneLoadInFlight ==
    \A p \in Peers :
        /\ Cardinality(LoadsInFlight(p)) <= 1
        /\ LoadsInFlight(p) # {} => isLoading[p]
\* C11: forward() never hands a round to run_validator_allreduce while
\* is_loading of its process is true.
C11_NoRoundWhileLoading ==
    [][ \A p \in Peers :
            (Ready(p) /\ pc'[p] # pc[p]) => ~isLoading[p] ]_vars
\* a load_state_from_peer call that forward() made after its round
RecoveryLoad(p) == lastLoad[p].site \notin {"none", "stale", "refresh"}

\* C12: after a successful load_state_from_peer the local epoch is the tag
\* that was loaded and the accumulated samples are 0.
C12_LocalEpochIsLoadedTag ==
    \A p \in Peers :
        (RecoveryLoad(p) /\ lastLoad[p].ok) =>
            /\ localEpoch[p] = lastLoad[p].epoch
            /\ localSamples[p] = 0
\* C13: every load_state_from_peer call that forward() makes after its round
\* asks for the tag that is the latest of the repository at the call.
C13_LoadsCurrentGlobalEpoch ==
    \A p \in Peers :
        RecoveryLoad(p) => lastLoad[p].epoch = lastLoad[p].latest
\* the publish of this forward() failed for good: the retry limit was
\* reached and the last exception re-raised
PublishFailed(p) == exc[p] /\ pubEpoch[p] # None /\ ~pubOK[p]

\* C14: a forward() that ended after a round that was not a Success, or after
\* a publish that failed for good, has called load_state_from_peer since the
\* round.
C14_FailureInvokesRecovery ==
    \A p \in Peers :
        ( /\ pc[p] \in {"idle", "raised"}
          /\ handle[p] # "none"
          /\ outcome[p] # <<"Success">> \/ PublishFailed(p) )
        => RecoveryLoad(p)
\* C15: every tag of the repository points to a commit whose weights are those
\* of the tag's epoch and whose optimizer.pt, when the commit has one, was
\* written for the same epoch: nobody reading tag N gets the weights of N with
\* the optimizer state of an earlier epoch.
C15_TagIsOneUpload ==
    \A n \in DOMAIN tags :
        /\ tags[n].ep = n
        /\ optTags[n] \in {None, n}
\* C16: wherever the publisher stops inside save_and_upload_state, every tag
\* of the repository points to a commit that holds the optimizer.pt written
\* for the tag's epoch, so to a finished upload_folder of that epoch; an epoch
\* whose upload did not finish has no tag.
C16_NoPartialTag ==
    \A n \in DOMAIN tags : optTags[n] = n

\* the master stopped between upload_folder and create_tag: main holds the
\* upload of an epoch that has no tag
C16_Witness ==
    \E p \in Peers :
        /\ pc[p] = "stopped"
        /\ optMain \notin DOMAIN tags
\* C17: whenever the publish loop of forward() goes round again after its
\* create_tag failed, the pass was counted in attempt, so the loop ends after
\* at most model_upload_retry_limit passes (a pass whose push_to_hub failed
\* changes nothing but attempt).
C17_EveryRetryCounted ==
    [][ \A p \in Peers :
            (pc[p] = "tag" /\ pc'[p] = "push") =>
                attempt'[p] = attempt[p] + 1 ]_vars
\* C18: save_and_upload_state returns to forward() (the only return its loop
\* reaches is return True) only from a pass whose upload_folder committed the
\* state of the epoch and whose create_tag then made the epoch's tag on that
\* commit; it leaves by raising only when the pass that failed was the last
\* one the retry limit allows.
C18_SuccessMeansUploadedAndTagged ==
    [][ \A p \in Peers :
            /\ (pc[p] \in {"upload", "dtag"} /\ pc'[p] = "idle") =>
                   /\ pc[p] = "dtag"
                   /\ optMain = pubEpoch[p]
                   /\ pubEpoch[p] \notin DOMAIN tags
                   /\ pubEpoch[p] \in DOMAIN tags'
                   /\ tags'[pubEpoch[p]] = main
                   /\ optTags'[pubEpoch[p]] = pubEpoch[p]
            /\ (pc[p] \in {"upload", "dtag"} /\ pc'[p] = "except") =>
                   attempt[p] + 1 = RetryLimit
            /\ (pc[p] \in {"upload", "dtag"} /\ pc'[p] = "upload"
                    /\ attempt'[p] # attempt[p]) =>
                   attempt'[p] < RetryLimit ]_vars

\* the master's save_and_upload_state returned on its second pass
C18_Witness ==
    \E p \in Peers :
        /\ IsMaster(p)
        /\ pc[p] = "idle"
        /\ attempt[p] > 0
        /\ localEpoch[p] > 0
        /\ localEpoch[p] \in DOMAIN tags
        /\ optTags[localEpoch[p]] = localEpoch[p]
\* C19: when the polling loop of perform_all_reduce has ended, every uid whose
\* peer id in group_peerids is None has the blacklist score 0 (so the filter
\* drops it), and a group handed to grad_averager.step has no None member.
C19_UnresolvedScoresZero ==
    \A p \in Peers :
        /\ gpc[p] = "filter" =>
               \A i \in 1..Len(groupPeerids[p]) :
                   groupPeerids[p][i] = NoPeer => blacklistScores[p][i] = 0
        /\ gpc[p] = "launched" =>
               \A i \in 1..Len(orderedPeerIds[p]) : orderedPeerIds[p][i] # NoPeer
\* C20: forward() goes on to an averaging round only when one is due: the
\* blocks since the last round have reached config.neuron.blocks_per_allreduce
\* or the accumulated samples exceed the threshold.
C20_RoundOnlyWhenDue ==
    [][ \A p \in Peers :
            (pc[p] = "idle" /\ pc'[p] \in {"poll", "reduce"}) =>
                \/ blocksSinceAllreduce >= BlocksPerAllreduce
                \/ localSamples'[p] > AllReduceThreshold ]_vars
\* C21: a round is classified Success only when its reduction handle completed
\* before all_reduce_timeout had elapsed since the start of the round.
C21_SuccessMeansDoneBeforeDeadline ==
    \A p \in Peers :
        (outcome[p] = <<"Success">> /\ handle[p] # "none") => handle[p] = "done"
\* C22: weights with a non-finite value are never the state a validator goes
\* on with and are never published: the round that produced them is failed,
\* the epoch is not advanced on them and a load replaces them.
C22_CorruptNeverCurrent ==
    /\ \A p \in Peers : pc[p] # "waiting" => model[p].by # "nan"
    /\ main.by # "nan"
    /\ \A n \in DOMAIN tags : tags[n].by # "nan"
\* C23: a forward() whose load_state_from_peer failed (the local epoch still
\* differs from the global epoch after the load it needed) does not go on to
\* an averaging round on the state it has.
C23_FailedLoadStopsThePeer ==
    [][ \A p \in Peers :
            ( /\ pc[p] = "idle"
              /\ localEpoch[p] # GetGlobalEpoch
              /\ localEpoch'[p] = localEpoch[p] )
            => pc'[p] \notin {"poll", "reduce"} ]_vars
C25_CurrentRevisionStaysCached ==
    \A p \in Peers : commitHash[p] \in cache[p]

\* a clean-up deleted another revision and kept the loaded one
C25_Witness ==
    \E p \in Peers :
        /\ lastLoad[p].site \in {"call", "again"}
        /\ lastLoad[p].ok
        /\ commitHash[p] # Genesis
        /\ cache[p] = {commitHash[p]}
C27_ScoresNonNegative ==
    \A i \in DOMAIN rewards : rewards[i].num >= 0

\* --------------------------------------------- ttl_get_block, SpecTtl
\* C28: two calls of ttl_get_block less than 12 seconds apart never both
\* reach subtensor.get_current_block: the chain is asked at most once in 12
\* seconds.
C28_ChainAskedOncePerTtl ==
    reached[1] # None => reached[2] - reached[1] >= Ttl


C30_UnpublishedAdvanceDiscarded ==
    [][ \A p \in Peers :
          ( /\ IsMaster(p)
            /\ pc[p] = "recover" /\ pc'[p] = "idle"
            /\ localEpoch[p] \notin DOMAIN tags )
          => localEpoch'[p] = GetGlobalEpoch ]_vars


\* C31: the check at the start of forward() loads a checkpoint only when
\* local_progress.epoch is less than the refreshed global epoch: a validator
\* whose local epoch is equal to or greater than the global epoch starts its
\* step with the epoch and the weights it had.
C31_NoRollbackAtStart ==
    [][ \A p \in Peers :
          (pc[p] = "idle" /\ localEpoch[p] >= globalEpoch'[p])
          => /\ localEpoch'[p] = localEpoch[p]
             /\ model'[p] = model[p] ]_vars


\* C32: a miner that did not answer the query (a status other than 200, or
\* no loss) has score 0 in the rewards of that step, whatever the step
\* number: update_scores pairs rewards[i] with the i-th queried miner.
C32_NoAnswerScoresZero ==
    (rpc = "query" /\ rewards # <<>>) =>
        \A i \in DOMAIN responses :
            ~(responses[i].status = 200 /\ responses[i].loss) =>
                (i \in DOMAIN rewards => rewards[i].num = 0)


\* C36: get_rewards returns one score for each uid it was given, in the order
\* of the uids, whatever branch it takes: the rewards forward() hands to
\* update_scores with self.miner_uids were computed for those miners.
C36_OneScorePerGivenUid ==
    (rpc = "query" /\ step > 0) =>
        /\ scoredUids = MinerUids(responses)
        /\ DOMAIN rewards = DOMAIN responses


\* ------------------------------------------------ the repository, Spec
\* C33: a tag that appears in the repository points to the weights of the
\* validator whose create_tag call made it, however the push_to_hub and
\* create_tag steps of the two validators interleave.
C33_TagHoldsItsMakersState ==
    [][ \A t \in DOMAIN tags' \ DOMAIN tags :
          \A p \in Peers :
              (pc[p] \in {"tag", "dtag"} /\ pc'[p] # pc[p]) =>
                  tags'[t] = model[p] ]_vars


C35_ThreeAttemptsThenFalse ==
    /\ [](loadCalls <= MaxAttempts)
    /\ [](lpc = "done" => stateLoaded \in {"True", "False"})
    /\ []((lpc = "done" /\ loadAttempt = MaxAttempts) => stateLoaded = "False")
    /\ [][ (lpc # "done" /\ lpc' # "off" /\ stateLoaded' # "True") =>
               /\ localEpoch' = localEpoch
               /\ localSamples' = localSamples ]_vars

\* a call on a validator with samples came back False after three failed
\* attempts while the repository had a newer tag
C35_Witness ==
    /\ lpc = "done"
    /\ stateLoaded = "False"
    /\ loadCalls = MaxAttempts
    /\ localSamples["A"] > 0
    /\ localEpoch["A"] < GetGlobalEpoch


\* -------------------------------- get_current_block_safe, SpecSafe
\* C37: a call of get_current_block_safe that finds a cached block younger
\* than the cache duration returns it without asking the chain; a call whose
\* query fails returns the last known block and leaves the cached block and
\* its time as they were; a call raises only when no block was ever fetched.
C37_CachedBlockSafe ==
    bpc = "returned" =>
        LET before == blockRet.before
            fresh  == /\ before[1] # None
                      /\ blockRet.at - before[2] < BlockCacheDuration
        IN  /\ fresh => /\ ~blockRet.queried
                        /\ ~blockRet.raised
                        /\ blockRet.block = before[1]
                        /\ <<lastBlock, lastBlockTime>> = before
            /\ blockRet.failed =>
                   /\ <<lastBlock, lastBlockTime>> = before
                   /\ before[1] # None =>
                          ~blockRet.raised /\ blockRet.block = before[1]
            /\ blockRet.raised => before[1] = None /\ blockRet.failed

\* a call found its cached block too old, asked the chain, which had a newer
\* block and failed, and returned the old block
C37_Witness ==
    /\ bpc = "returned"
    /\ blockRet.failed
    /\ ~blockRet.raised
    /\ blockRet.block < chainBlock
    /\ blockRet.at - lastBlockTime >= BlockCacheDuration


\* ------------------------------------------------ init_dht, FairSpecDht
\* C38: init_dht ends, whatever the list of initial peers, the empty list
\* included: it returns at the first connection that succeeds, and when no
\* connection succeeds it raises 'Max retries reached' after exactly
\* 5 * len(initial_peers_list) failed attempts.
C38_InitDhtTerminates ==
    /\ (ipc = "while") ~> (ipc \in {"returned", "raised", "left"})
    /\ [](successfulConnection => ipc = "returned")
    /\ [](ipc = "raised" =>
             retries = Buffer * initialPeers /\ ~successfulConnection)
    /\ []((ipc \in {"returned", "raised", "left"} /\ ~successfulConnection)
             => ipc = "raised")

====
